---- MODULE Spec2Model ----
(***************************************************************************)
(* The decision loop of the browser agent (AICore.run_agent_loop) with its *)
(* context window (AICore._trim_context).  One action per step of the loop *)
(* body between two external calls: observe, decide, act, settle.          *)
(***************************************************************************)
EXTENDS Naturals, Sequences, FiniteSets, TLC

VARIABLES
    messages,           \* AICore.messages: the transcript
    current_iteration,  \* AICore.current_iteration
    pc,                 \* position of run_agent_loop
    page,               \* browser_controller.page is not None
    pending,            \* response_message of the decision call being acted on
    exit,               \* how the while loop was left: none, done, fatal, limit
    notice,             \* the iteration-limit notice was printed by this task
    user_prompt,        \* the task of the run_agent_loop call, 0 before the first
    obs_fails,          \* observation exceptions of this task
    n_decide,           \* decision calls (chat.completions.create) of this task
    any_tool,           \* ToolManager.call_tool was entered in this task
    calls,              \* external calls of the current iteration, in order
    llm,                \* outcome of the last decision call of this task
    failed_sent,        \* message list passed to that call, if it raised
    only_tool_requests, \* every iteration of this task got a tool-call response
    last_step,          \* what the last step did
    prev_exit,          \* how the task before ended, kept until the first iteration
    max_size,           \* AICore.max_context_messages of the instance
    before,             \* the transcript the last _trim_context call was given
    main_pc,            \* position of main
    stops,              \* calls of BrowserController.stop
    tools,              \* ToolManager.tools, in insertion order
    catalog,            \* what get_tool_definitions returned last
    reg_call,           \* the arguments of the last register_tool call
    reg_error,          \* whether the last register_tool call raised
    dispatched,         \* the name and the callable the last call_tool reached
    first_order,        \* the names in the order they were first registered
    last_reg            \* per name, the callable of its last registration

vars == <<messages, current_iteration, pc, page, pending, exit, notice, user_prompt,
          obs_fails, n_decide, any_tool, calls, llm, failed_sent,
          only_tool_requests, last_step, prev_exit, max_size, before, main_pc,
          stops, tools, catalog, reg_call, reg_error, dispatched, first_order,
          last_reg>>

\* The state of the ToolManager.
tool_vars == <<tools, catalog, reg_call, reg_error, dispatched, first_order,
               last_reg>>

\* What the steps of run_agent_loop leave alone.
aux_vars == <<max_size, before, main_pc, stops, tool_vars>>

\* ---------------------------------------------------------------- bounds
\* Observation exceptions explored per task.
MaxObsFail == 1

\* The constructor argument max_context_messages (line 24, stored at line 40).
max_context_messages == 4

\* Calls of _trim_context explored when the window is studied on its own.
MaxTrimCalls == 5

\* The largest max_size the window is studied with.
MaxSize == 5

\* ------------------------------------------------------- program constants
\* Line 38: self.max_iterations = 50.
max_iterations == 50

\* ---------------------------------------------------------------- messages
Empty == <<"", 0>>
NoCalls == <<>>

Msg(role, content, tool_calls, tool_call_id, name) ==
    [role |-> role, content |-> content, tool_calls |-> tool_calls,
     tool_call_id |-> tool_call_id, name |-> name]

SystemMsg == Msg("system", <<"system_prompt", 0>>, NoCalls, 0, "")
GoalMsg(t) == Msg("user", <<"goal", t>>, NoCalls, 0, "")
ObservationMsg(i) == Msg("user", <<"observation", i>>, NoCalls, 0, "")
UserMsg(kind) == Msg("user", <<kind, 0>>, NoCalls, 0, "")
AssistantMsg(r) == Msg("assistant", r.content, r.tool_calls, 0, "")
ToolMsg(tc, result) == Msg("tool", <<result, 0>>, NoCalls, tc.id, tc.function.name)

\* ------------------------------------------------------------ _trim_context
FirstIdx(msgs, r) ==
    IF \E i \in 1..Len(msgs) : msgs[i].role = r
    THEN CHOOSE i \in 1..Len(msgs) :
            msgs[i].role = r /\ \A j \in 1..(i - 1) : msgs[j].role # r
    ELSE 0

\* A window that keeps the oldest n instead of the newest.
LastN_oldest(s, n) == IF n >= Len(s) THEN s ELSE SubSeq(s, 1, n)

LastN(s, n) == IF n >= Len(s) THEN s ELSE SubSeq(s, Len(s) - n + 1, Len(s))

essential_messages(msgs) ==
    LET system_idx == FirstIdx(msgs, "system")
        first_user_idx == FirstIdx(msgs, "user")
    IN  (IF system_idx # 0 THEN <<msgs[system_idx]>> ELSE <<>>)
        \o (IF first_user_idx # 0 THEN <<msgs[first_user_idx]>> ELSE <<>>)

recent_messages(msgs) ==
    LET first_user_idx == FirstIdx(msgs, "user")
    IN  SelectSeq(SubSeq(msgs, first_user_idx + 1, Len(msgs)),
                  LAMBDA m : m.role # "system")

trim_raises(msgs, max) == Len(msgs) > max /\ FirstIdx(msgs, "user") = 0

\* A plain sliding window that does not hold on to the essentials.
trim_context_plain_window(msgs, max) ==
    IF Len(msgs) <= max THEN msgs ELSE LastN(msgs, max)

\* A window that always leaves one slot free for the next observation.
trim_context_reserves_slot(msgs, max) ==
    IF Len(msgs) < max THEN msgs
    ELSE LET keep_count == max - Len(essential_messages(msgs)) - 1
         IN  IF keep_count > 0
             THEN essential_messages(msgs) \o LastN(recent_messages(msgs), keep_count)
             ELSE essential_messages(msgs)

trim_context(msgs, max) ==
    IF Len(msgs) <= max THEN msgs
    ELSE LET keep_count == max - Len(essential_messages(msgs))
         IN  IF max > Len(essential_messages(msgs))
             THEN essential_messages(msgs) \o LastN(recent_messages(msgs), keep_count)
             ELSE essential_messages(msgs)

\* ------------------------------------------------- the LLM client's answers
\* tool_call.function.name: one registered tool, one that is not.
ToolNames == {"click_element", "nonexistent_tool"}
RegisteredTools == {"click_element"}

\* tool_call.function.arguments, by what json.loads and the call make of it:
\*   malformed     json.loads raises JSONDecodeError
\*   nonmapping    valid JSON that is no object (a list, a number, null)
\*   mapping       an object whose keys fit the callable's parameters
\*   mapping_name  an object holding the key "name"
\*   mapping_extra an object holding a key the callable does not take
ArgKinds == {"malformed", "nonmapping", "mapping", "mapping_name", "mapping_extra"}

ToolCall(id, name, arguments) ==
    [id |-> id, type |-> "function",
     function |-> [name |-> name, arguments |-> arguments]]

\* The first requested call: the registered tool with every kind of arguments,
\* and a tool that is not registered.
FirstCalls(id) ==
    { ToolCall(id, "click_element", a) : a \in ArgKinds }
    \cup { ToolCall(id, "nonexistent_tool", "mapping") }

\* The responses the k-th decision call can return: text or none, and zero,
\* one or two tool calls with ids no other response uses.
Responses(k) ==
    { [content |-> c, tool_calls |-> tcs] :
        c \in {Empty, <<"text", k>>},
        tcs \in {NoCalls}
            \cup { <<tc>> : tc \in FirstCalls(2 * k - 1) }
            \cup { <<ToolCall(2 * k - 1, "click_element", "mapping"),
                     ToolCall(2 * k, "click_element", "mapping")>> } }

\* Exceptions of chat.completions.create, by the except clause that takes them.
LlmErrors == {"auth", "quota", "rate", "api", "other"}
FatalLlm == {"auth", "quota"}

\* --------------------------------------------------------- ToolManager.call_tool
\* The string call_tool returns; raised is whether the callable raises when it
\* is invoked with arguments that fit.
call_tool(name, arguments, raised) ==
    IF name \notin RegisteredTools THEN "tool_not_found"
    ELSE IF arguments = "mapping_extra" \/ raised THEN "tool_failed"
    ELSE "tool_ok"

\* The call self.tool_manager.call_tool(function_name, **function_args) raises
\* TypeError before call_tool runs.
dispatch_raises(arguments) == arguments \in {"nonmapping", "mapping_name"}

NoResponse == [content |-> Empty, tool_calls |-> NoCalls]

\* ------------------------------------------- ToolManager: registry, catalog
\* inspect.Parameter.empty, for a missing default.
ParameterEmpty == <<"empty">>

\* A parameter of a signature.  The annotation is <<origin, type>>: origin ""
\* for a plain type, "Optional" for Optional[type], another origin for other
\* generics; type "empty" when there is no annotation.
Param(name, annotation, default) ==
    [name |-> name, annotation |-> annotation, default |-> default]

\* Callables handed to register_tool: coroutine functions in the shape of
\* BrowserTools' methods, one without a docstring that has a direction
\* parameter and **kwargs, and one plain function.  doc is the description
\* part of the docstring, documented the names its Args section describes.
ClickElement ==
    [id |-> "click_element", async |-> TRUE, doc |-> "clicks",
     documented |-> {"ai_id"},
     params |-> <<Param("ai_id", <<"", "str">>, ParameterEmpty)>>]

ScrollPage ==
    [id |-> "scroll_page", async |-> TRUE, doc |-> "scrolls",
     documented |-> {"direction", "pixels"},
     params |-> <<Param("direction", <<"", "str">>, <<"value", "down">>),
                  Param("pixels", <<"", "int">>, <<"value", "500">>)>>]

MoveTo ==
    [id |-> "move_to", async |-> TRUE, doc |-> "", documented |-> {},
     params |-> <<Param("direction", <<"", "empty">>, ParameterEmpty),
                  Param("timeout", <<"Optional", "int">>, <<"value", "None">>),
                  Param("kwargs", <<"", "empty">>, ParameterEmpty)>>]

BlockingTool ==
    [id |-> "blocking_tool", async |-> FALSE, doc |-> "blocks",
     documented |-> {"text"},
     params |-> <<Param("text", <<"", "str">>, ParameterEmpty)>>]

Callables == {ClickElement, ScrollPage, MoveTo, BlockingTool}

\* The names tools are registered under.
RegistryNames == {"click_element", "scroll_page"}

NoCall == [name |-> "", func |-> ""]

\* The registry main builds for the agent loop.
StartupTools == <<[name |-> "click_element", func |-> ClickElement]>>

HasKey(d, name) == \E i \in 1..Len(d) : d[i].name = name

\* A registry that keeps every registration as an entry of its own.
set_item_appends(d, name, func) == Append(d, [name |-> name, func |-> func])

\* Line 121: self.tools[name].
get_item(d, name) == d[CHOOSE i \in 1..Len(d) : d[i].name = name].func

\* Line 89: self.tools[name] = func.  A dict keeps the place of a key that is
\* assigned again.
set_item(d, name, func) ==
    IF HasKey(d, name)
    THEN [i \in 1..Len(d) |->
            IF d[i].name = name THEN [name |-> name, func |-> func] ELSE d[i]]
    ELSE Append(d, [name |-> name, func |-> func])

\* A register_tool that stores the callable before it tests it.
register_tool_stores_first(d, name, func) ==
    [raised |-> ~func.async, tools |-> set_item(d, name, func)]

\* Lines 79-89: register_tool; raised is the ValueError of line 88.
register_tool(d, name, func) ==
    IF ~func.async
    THEN [raised |-> TRUE, tools |-> d]
    ELSE [raised |-> FALSE, tools |-> set_item(d, name, func)]

\* Lines 47-54: the type_mapping dict, with its fallback of line 69.
type_mapping(t) ==
    CASE t = "str"   -> "string"
      [] t = "int"   -> "integer"
      [] t = "float" -> "number"
      [] t = "bool"  -> "boolean"
      [] t = "list"  -> "array"
      [] t = "dict"  -> "object"
      [] OTHER       -> "string"

\* Lines 38-69 and 153: Optional[T] maps as T, no annotation and other
\* generics map to string.
python_type_to_json_type(annotation) ==
    IF annotation[1] \in {"", "Optional"} THEN type_mapping(annotation[2])
    ELSE "string"

\* Lines 149-151: the parameters that are left out by their name.
skipped(param) == param.name \in {"self", "args", "kwargs"}

\* Lines 153-163: the schema of one parameter; default is set only when the
\* parameter has one.
param_schema(func, param) ==
    LET base == [type |-> python_type_to_json_type(param.annotation),
                 description |-> IF param.name \in func.documented
                                 THEN param.name ELSE ""]
    IN  IF param.default # ParameterEmpty
        THEN [type |-> base.type, description |-> base.description,
              default |-> param.default]
        ELSE base

\* A catalog that gives the enum to every parameter named direction.
with_enum_any_tool(name, prop) ==
    IF prop.name = "direction"
    THEN [name |-> prop.name,
          schema |-> [f \in DOMAIN prop.schema \cup {"enum"} |->
                        IF f = "enum" THEN <<"down", "up", "top", "bottom">>
                        ELSE prop.schema[f]]]
    ELSE prop

\* Lines 171-173: the enum of scroll_page's direction.
with_enum(name, prop) ==
    IF name = "scroll_page" /\ prop.name = "direction"
    THEN [name |-> prop.name,
          schema |-> [f \in DOMAIN prop.schema \cup {"enum"} |->
                        IF f = "enum" THEN <<"down", "up", "top", "bottom">>
                        ELSE prop.schema[f]]]
    ELSE prop

\* Lines 147-165, 171-173: the properties dict, in the order of the signature.
properties(name, func) ==
    LET listed == SelectSeq(func.params, LAMBDA q : ~skipped(q))
    IN  [i \in 1..Len(listed) |->
            with_enum(name, [name |-> listed[i].name,
                             schema |-> param_schema(func, listed[i])])]

\* A required list that names every listed parameter.
required_all(func) ==
    LET listed == SelectSeq(func.params, LAMBDA q : ~skipped(q))
    IN  [i \in 1..Len(listed) |-> listed[i].name]

\* Lines 167-169: the names of the listed parameters without a default.
required(func) ==
    LET needed == SelectSeq(func.params,
                            LAMBDA q : ~skipped(q) /\ q.default = ParameterEmpty)
    IN  [i \in 1..Len(needed) |-> needed[i].name]

\* Lines 175-186: one catalog entry.
tool_definition(name, func) ==
    [type |-> "function",
     function |->
        [name |-> name,
         description |-> IF func.doc # "" THEN <<"doc", func.doc>>
                         ELSE <<"action", name>>,
         parameters |-> [type |-> "object",
                         properties |-> properties(name, func),
                         required |-> required(func)]]]

\* Lines 126-190: one entry per registered tool, in the order of the dict.
get_tool_definitions(d) ==
    [i \in 1..Len(d) |-> tool_definition(d[i].name, d[i].func)]

\* ------------------------------------------------------------------- Init
Init ==
    /\ messages = <<SystemMsg>>
    /\ current_iteration = 0
    /\ pc = "idle"
    /\ page = TRUE
    /\ pending = NoResponse
    /\ exit = "none"
    /\ notice = FALSE
    /\ user_prompt = 0
    /\ obs_fails = 0
    /\ n_decide = 0
    /\ any_tool = FALSE
    /\ calls = <<>>
    /\ llm = "none"
    /\ failed_sent = <<>>
    /\ only_tool_requests = TRUE
    /\ last_step = "init"
    /\ prev_exit = "none"
    /\ max_size = max_context_messages
    /\ before = <<>>
    /\ tools = StartupTools
    /\ catalog = <<>>
    /\ reg_call = NoCall
    /\ reg_error = FALSE
    /\ dispatched = NoCall
    /\ first_order = <<"click_element">>
    /\ last_reg = [n \in RegistryNames |->
                    IF n = "click_element" THEN "click_element" ELSE ""]
    /\ main_pc = "loop"
    /\ stops = 0

\* ------------------------------------------------------- run_agent_loop
\* The tasks the user types, one per call of run_agent_loop.
Prompts == {1, 2}

\* Lines 115-119: reset of the counter and of the transcript, goal appended.
\* The caller passes a browser controller whose page is set or None.
\* A reset that appends a fresh system prompt for every task.
reset_messages_fresh_system(msgs, t) ==
    SelectSeq(msgs, LAMBDA m : m.role = "system") \o <<SystemMsg, GoalMsg(t)>>

\* A reset that keeps the history of the task before.
reset_messages_keeps_history(msgs, t) == Append(msgs, GoalMsg(t))

\* Lines 117-118: the system messages are kept, the goal is appended.
reset_messages(msgs, t) ==
    Append(SelectSeq(msgs, LAMBDA m : m.role = "system"), GoalMsg(t))

StartTask ==
    /\ pc = "idle"
    /\ \E t \in Prompts :
        /\ user_prompt' = t
        /\ messages' = reset_messages(messages, t)
    /\ \E p \in BOOLEAN : page' = p
    /\ current_iteration' = 0
    /\ pc' = "head"
    /\ pending' = NoResponse
    /\ exit' = "none"
    /\ notice' = FALSE
    /\ obs_fails' = 0
    /\ n_decide' = 0
    /\ any_tool' = FALSE
    /\ calls' = <<>>
    /\ llm' = "none"
    /\ failed_sent' = <<>>
    /\ only_tool_requests' = TRUE
    /\ last_step' = "start"
    /\ prev_exit' = exit
    /\ UNCHANGED aux_vars

loop_condition_off_by_one == current_iteration <= max_iterations

\* Line 121: the while test.
loop_condition == current_iteration < max_iterations

\* Line 122: the increment.
next_iteration(i) == i + 1

\* A page test that goes on with the next iteration.
on_no_page_continue == [pc |-> "head", exit |-> "none"]

\* Lines 130-132: without a page the error is logged and the loop is left.
on_no_page == [pc |-> "post", exit |-> "fatal"]

\* Lines 121-132: the while test, the increment, the trim and the page test.
LoopHead ==
    /\ pc = "head"
    /\ prev_exit' = "none"
    /\ UNCHANGED aux_vars
    /\ calls' = <<>>
    /\ pending' = NoResponse
    /\ UNCHANGED <<page, notice, user_prompt, obs_fails, n_decide, any_tool, llm,
                   failed_sent>>
    /\ only_tool_requests' = (only_tool_requests /\ (loop_condition => page))
    /\ IF loop_condition
       THEN /\ current_iteration' = next_iteration(current_iteration)
            /\ IF trim_raises(messages, max_size)
               THEN /\ messages' = Append(messages, UserMsg("loop_error"))
                    /\ pc' = "head"
                    /\ exit' = exit
                    /\ last_step' = "trim_error"
               ELSE /\ messages' = trim_context(messages, max_size)
                    /\ IF page
                       THEN /\ pc' = "observe"
                            /\ exit' = exit
                            /\ last_step' = "trim"
                       ELSE /\ pc' = on_no_page.pc
                            /\ exit' = on_no_page.exit
                            /\ last_step' = "no_page"
       ELSE /\ pc' = "post"
            /\ exit' = "limit"
            /\ last_step' = "limit"
            /\ UNCHANGED <<messages, current_iteration>>

\* Lines 134-150: the snapshot is taken and appended as a user message.
ObserveOk ==
    /\ pc = "observe"
    /\ UNCHANGED <<prev_exit, aux_vars>>
    /\ calls' = Append(calls, "observe")
    /\ messages' = Append(messages, ObservationMsg(current_iteration))
    /\ pc' = "decide"
    /\ last_step' = "observed"
    /\ UNCHANGED <<current_iteration, page, pending, exit, notice, user_prompt,
                   obs_fails, n_decide, any_tool, llm, failed_sent,
                   only_tool_requests>>

\* A handler that logs the error and tells the LLM nothing.
outer_except_silent(msgs) == msgs

\* Lines 287-291: the handler of the outer try.
outer_except(msgs) == Append(msgs, UserMsg("loop_error"))

\* Lines 135-140 raise (page closed, timeout): the outer handler runs.
ObserveRaises ==
    /\ pc = "observe"
    /\ UNCHANGED <<prev_exit, aux_vars>>
    /\ obs_fails < MaxObsFail
    /\ obs_fails' = obs_fails + 1
    /\ calls' = Append(calls, "observe")
    /\ messages' = outer_except(messages)
    /\ pc' = "head"
    /\ only_tool_requests' = FALSE
    /\ last_step' = "observe_error"
    /\ UNCHANGED <<current_iteration, page, pending, exit, notice, user_prompt,
                   n_decide, any_tool, llm, failed_sent>>

\* Variants of the except clauses: the retry re-issues the call in place; a
\* quota failure is retried like a rate limit; a fatal failure is reported
\* into the transcript.
on_llm_error_retry_in_place(err, msgs) ==
    CASE err \in {"auth", "quota"} -> [messages |-> msgs, pc |-> "post", exit |-> "fatal"]
      [] err = "rate"  -> [messages |-> msgs, pc |-> "decide", exit |-> "none"]
      [] err = "api"   -> [messages |-> Append(msgs, UserMsg("api_error")),
                           pc |-> "head", exit |-> "none"]
      [] OTHER         -> [messages |-> Append(msgs, UserMsg("unexpected_error")),
                           pc |-> "head", exit |-> "none"]

on_llm_error_quota_retried(err, msgs) ==
    CASE err = "auth"  -> [messages |-> msgs, pc |-> "post", exit |-> "fatal"]
      [] err \in {"quota", "rate"} -> [messages |-> msgs, pc |-> "head", exit |-> "none"]
      [] err = "api"   -> [messages |-> Append(msgs, UserMsg("api_error")),
                           pc |-> "head", exit |-> "none"]
      [] OTHER         -> [messages |-> Append(msgs, UserMsg("unexpected_error")),
                           pc |-> "head", exit |-> "none"]

on_llm_error_fatal_appends(err, msgs) ==
    CASE err \in {"auth", "quota"} ->
            [messages |-> Append(msgs, UserMsg("api_error")),
             pc |-> "post", exit |-> "fatal"]
      [] err = "rate"  -> [messages |-> msgs, pc |-> "head", exit |-> "none"]
      [] err = "api"   -> [messages |-> Append(msgs, UserMsg("api_error")),
                           pc |-> "head", exit |-> "none"]
      [] OTHER         -> [messages |-> Append(msgs, UserMsg("unexpected_error")),
                           pc |-> "head", exit |-> "none"]

\* Lines 161-207: the except clauses of the decision call.  The result is the
\* transcript, where the loop goes next and how it is left.
on_llm_error(err, msgs) ==
    CASE err = "auth"  -> [messages |-> msgs, pc |-> "post", exit |-> "fatal"]
      [] err = "quota" -> [messages |-> msgs, pc |-> "post", exit |-> "fatal"]
      [] err = "rate"  -> [messages |-> msgs, pc |-> "head", exit |-> "none"]
      [] err = "api"   -> [messages |-> Append(msgs, UserMsg("api_error")),
                           pc |-> "head", exit |-> "none"]
      [] OTHER         -> [messages |-> Append(msgs, UserMsg("unexpected_error")),
                           pc |-> "head", exit |-> "none"]

\* Lines 153-207: chat.completions.create raises.
DecideError ==
    /\ pc = "decide"
    /\ UNCHANGED <<prev_exit, aux_vars>>
    /\ n_decide <= max_iterations    \* cap of the call count
    /\ \E err \in LlmErrors :
        /\ messages' = on_llm_error(err, messages).messages
        /\ pc' = on_llm_error(err, messages).pc
        /\ exit' = on_llm_error(err, messages).exit
        /\ llm' = err
    /\ calls' = Append(calls, "decide")
    /\ n_decide' = n_decide + 1
    /\ failed_sent' = messages
    /\ only_tool_requests' = FALSE
    /\ last_step' = "llm_error"
    /\ UNCHANGED <<current_iteration, page, pending, notice, user_prompt, obs_fails,
                   any_tool>>

\* A loop that stores the response only when it asks for a tool.
append_response_calls_only(msgs, r) ==
    IF r.content # Empty /\ r.tool_calls # NoCalls
    THEN Append(msgs, AssistantMsg(r)) ELSE msgs

\* Lines 212-234: the assistant message is appended when the text is not empty.
append_response(msgs, r) ==
    IF r.content # Empty THEN Append(msgs, AssistantMsg(r)) ELSE msgs

\* A test that takes any text for the final answer.
requests_tool_unless_text(r) == r.tool_calls # NoCalls /\ r.content = Empty

\* Line 237: the test that sends the loop to the action or to the final answer.
requests_tool(r) == r.tool_calls # NoCalls

on_final_answer_no_break == [pc |-> "head", exit |-> "none"]

\* Lines 277-285: the final answer is printed and the loop is left.
on_final_answer == [pc |-> "post", exit |-> "done"]

\* Lines 153-160, 209-237, 277-285: chat.completions.create returns.
DecideResponse ==
    /\ pc = "decide"
    /\ UNCHANGED <<prev_exit, aux_vars>>
    /\ n_decide <= max_iterations    \* cap of the call count
    /\ \E r \in Responses(n_decide + 1) :
        /\ messages' = append_response(messages, r)
        /\ pending' = r
        /\ only_tool_requests' = (only_tool_requests /\ requests_tool(r))
        /\ IF requests_tool(r)
           THEN /\ pc' = "act"
                /\ exit' = exit
                /\ last_step' = "tool_requested"
           ELSE /\ pc' = on_final_answer.pc
                /\ exit' = on_final_answer.exit
                /\ last_step' = "final_answer"
    /\ calls' = Append(calls, "decide")
    /\ n_decide' = n_decide + 1
    /\ llm' = "ok"
    /\ failed_sent' = <<>>
    /\ UNCHANGED <<current_iteration, page, notice, user_prompt, obs_fails, any_tool>>

\* Line 238: only the first requested call is processed.
tool_call == pending.tool_calls[1]

parse_never_fails(arguments) == FALSE

\* Lines 240-242: json.loads raises JSONDecodeError.
parse_fails(arguments) == arguments = "malformed"

\* Lines 248-252: the corrective message.
corrective(msgs) == Append(msgs, UserMsg("malformed_arguments"))

\* Lines 242-253: malformed arguments.
ActMalformed ==
    /\ pc = "act"
    /\ UNCHANGED <<prev_exit, aux_vars>>
    /\ parse_fails(tool_call.function.arguments)
    /\ messages' = corrective(messages)
    /\ pc' = "head"
    /\ last_step' = "malformed"
    /\ UNCHANGED <<current_iteration, page, pending, exit, notice, user_prompt,
                   obs_fails, n_decide, any_tool, calls, llm, failed_sent,
                   only_tool_requests>>

\* Line 260 raises TypeError while the call is bound: the outer handler runs.
ActDispatchRaises ==
    /\ pc = "act"
    /\ UNCHANGED <<prev_exit, aux_vars>>
    /\ ~parse_fails(tool_call.function.arguments)
    /\ dispatch_raises(tool_call.function.arguments)
    /\ messages' = outer_except(messages)
    /\ pc' = "head"
    /\ last_step' = "dispatch_error"
    /\ UNCHANGED <<current_iteration, page, pending, exit, notice, user_prompt,
                   obs_fails, n_decide, any_tool, calls, llm, failed_sent,
                   only_tool_requests>>

\* A loop that files the result in front of the message before it.
append_result_before_last(msgs, tc, result) ==
    SubSeq(msgs, 1, Len(msgs) - 1) \o <<ToolMsg(tc, result), msgs[Len(msgs)]>>

\* Lines 262-270: the result is appended as a tool message.
append_result(msgs, tc, result) == Append(msgs, ToolMsg(tc, result))

\* A loop that goes through all the calls a response requests.
next_after_tool_all_calls(r) == IF Len(r.tool_calls) > 1 THEN "act" ELSE "settle"

\* Lines 238-275: after the result of tool_calls[0] the loop waits for the
\* page; the other calls of the response are not looked at.
next_after_tool(r) == "settle"

\* Lines 255-272: the tool is dispatched and its result appended.
ActTool ==
    /\ pc = "act"
    /\ UNCHANGED <<prev_exit, aux_vars>>
    /\ ~parse_fails(tool_call.function.arguments)
    /\ ~dispatch_raises(tool_call.function.arguments)
    /\ \E raised \in BOOLEAN :
        /\ raised => (tool_call.function.name \in RegisteredTools
                      /\ tool_call.function.arguments = "mapping")
        /\ messages' = append_result(messages, tool_call,
                          call_tool(tool_call.function.name,
                                    tool_call.function.arguments, raised))
    /\ calls' = Append(calls, "call_tool")
    /\ any_tool' = TRUE
    /\ pc' = next_after_tool(pending)
    /\ last_step' = "tool_called"
    /\ UNCHANGED <<current_iteration, page, pending, exit, notice, user_prompt,
                   obs_fails, n_decide, llm, failed_sent,
                   only_tool_requests>>

\* Line 275: page.wait_for_timeout returns.
SettleOk ==
    /\ pc = "settle"
    /\ UNCHANGED <<prev_exit, aux_vars>>
    /\ calls' = Append(calls, "settle")
    /\ pc' = "head"
    /\ last_step' = "settled"
    /\ UNCHANGED <<messages, current_iteration, page, pending, exit, notice,
                   user_prompt, obs_fails, n_decide, any_tool, llm, failed_sent,
                   only_tool_requests>>

\* Line 275 raises (the page was closed): the outer handler runs.
SettleRaises ==
    /\ pc = "settle"
    /\ UNCHANGED <<prev_exit, aux_vars>>
    /\ calls' = Append(calls, "settle")
    /\ messages' = outer_except(messages)
    /\ pc' = "head"
    /\ last_step' = "settle_error"
    /\ UNCHANGED <<current_iteration, page, pending, exit, notice, user_prompt,
                   obs_fails, n_decide, any_tool, llm, failed_sent,
                   only_tool_requests>>

\* Line 293: the test that prints the iteration-limit notice.
limit_reached == current_iteration >= max_iterations

\* Lines 293-298: after the loop.
PostLoop ==
    /\ pc = "post"
    /\ UNCHANGED <<prev_exit, aux_vars>>
    /\ notice' = limit_reached
    /\ pc' = "idle"
    /\ last_step' = "returned"
    /\ UNCHANGED <<messages, current_iteration, page, pending, exit, user_prompt,
                   obs_fails, n_decide, any_tool, calls, llm, failed_sent,
                   only_tool_requests>>

LoopStep ==
    \/ LoopHead
    \/ ObserveOk
    \/ ObserveRaises
    \/ DecideError
    \/ DecideResponse
    \/ ActMalformed
    \/ ActDispatchRaises
    \/ ActTool
    \/ SettleOk
    \/ SettleRaises
    \/ PostLoop

Next == StartTask \/ LoopStep

Spec == Init /\ [][Next]_vars

\* The event loop runs the coroutine on: every external call returns or raises.
FairSpec == Spec /\ WF_vars(LoopStep)

\* ------------------------------------------- _trim_context over a task
\* The transcript of one task as the iterations of run_agent_loop build it,
\* for every max_size: each iteration trims (line 127), appends the
\* observation (line 145) and then what its outcome appends.
rest_vars == <<page, pending, exit, notice, user_prompt, obs_fails, n_decide,
               any_tool, calls, llm, failed_sent, only_tool_requests, prev_exit,
               main_pc, stops, tool_vars>>

TrimInit ==
    /\ messages = <<SystemMsg, GoalMsg(1)>>
    /\ max_size \in 0..MaxSize
    /\ before = <<>>
    /\ tools = StartupTools
    /\ catalog = <<>>
    /\ reg_call = NoCall
    /\ reg_error = FALSE
    /\ dispatched = NoCall
    /\ first_order = <<"click_element">>
    /\ last_reg = [n \in RegistryNames |->
                    IF n = "click_element" THEN "click_element" ELSE ""]
    /\ current_iteration = 0
    /\ pc = "head"
    /\ last_step = "start"
    /\ page = TRUE
    /\ pending = NoResponse
    /\ exit = "none"
    /\ notice = FALSE
    /\ user_prompt = 1
    /\ obs_fails = 0
    /\ n_decide = 0
    /\ any_tool = FALSE
    /\ calls = <<>>
    /\ llm = "none"
    /\ failed_sent = <<>>
    /\ only_tool_requests = TRUE
    /\ prev_exit = "none"
    /\ main_pc = "loop"
    /\ stops = 0

\* Lines 122 and 127.
TrimCall ==
    /\ pc = "head"
    /\ current_iteration < MaxTrimCalls
    /\ current_iteration' = next_iteration(current_iteration)
    /\ before' = messages
    /\ messages' = trim_context(messages, max_size)
    /\ pc' = "observe"
    /\ last_step' = "trimmed"
    /\ UNCHANGED <<max_size, rest_vars>>

\* Lines 145-150.
TrimObserve ==
    /\ pc = "observe"
    /\ messages' = Append(messages, ObservationMsg(current_iteration))
    /\ pc' = "decide"
    /\ last_step' = "observed"
    /\ UNCHANGED <<current_iteration, max_size, before, rest_vars>>

\* The response the iteration's tool pair comes from: text and one call.
PairResponse(i) ==
    [content |-> <<"text", i>>,
     tool_calls |-> <<ToolCall(i, "click_element", "mapping")>>]

\* Lines 234 and 263-270: the assistant message and the result of its call.
TrimToolPair ==
    /\ pc = "decide"
    /\ messages' = append_result(append_response(messages, PairResponse(current_iteration)),
                                 PairResponse(current_iteration).tool_calls[1],
                                 "tool_ok")
    /\ pc' = "head"
    /\ last_step' = "tool"
    /\ UNCHANGED <<current_iteration, max_size, before, rest_vars>>

\* Lines 198-201, 204-207, 248-253, 289-291: one user message on an error.
TrimUserNote ==
    /\ pc = "decide"
    /\ \E kind \in {"api_error", "malformed_arguments", "loop_error"} :
            messages' = Append(messages, UserMsg(kind))
    /\ pc' = "head"
    /\ last_step' = "note"
    /\ UNCHANGED <<current_iteration, max_size, before, rest_vars>>

\* Lines 194-195: the retry after a rate limit appends nothing.
TrimNothing ==
    /\ pc = "decide"
    /\ pc' = "head"
    /\ last_step' = "retry"
    /\ UNCHANGED <<messages, current_iteration, max_size, before, rest_vars>>

TrimNext == TrimCall \/ TrimObserve \/ TrimToolPair \/ TrimUserNote \/ TrimNothing

SpecTrim == TrimInit /\ [][TrimNext]_vars

\* ------------------------------------------------------------------ main
\* What main itself does not assign.
task_vars == <<messages, current_iteration, page, pending, exit, notice,
               user_prompt, obs_fails, n_decide, any_tool, calls, llm,
               failed_sent, only_tool_requests, prev_exit, max_size, before,
               tool_vars>>

\* Line 36: the controller exists, start has not been called.
MainInit ==
    /\ main_pc = "created"
    /\ stops = 0
    /\ messages = <<SystemMsg>>
    /\ current_iteration = 0
    /\ pc = "idle"
    /\ page = TRUE
    /\ pending = NoResponse
    /\ exit = "none"
    /\ notice = FALSE
    /\ user_prompt = 0
    /\ obs_fails = 0
    /\ n_decide = 0
    /\ any_tool = FALSE
    /\ calls = <<>>
    /\ llm = "none"
    /\ failed_sent = <<>>
    /\ only_tool_requests = TRUE
    /\ last_step = "init"
    /\ prev_exit = "none"
    /\ max_size = max_context_messages
    /\ before = <<>>
    /\ tools = StartupTools
    /\ catalog = <<>>
    /\ reg_call = NoCall
    /\ reg_error = FALSE
    /\ dispatched = NoCall
    /\ first_order = <<"click_element">>
    /\ last_reg = [n \in RegistryNames |->
                    IF n = "click_element" THEN "click_element" ELSE ""]

\* A try block left without its finally clause when a BaseException passes.
leave_main_no_finally(how) == IF how = "interrupt" THEN "exited" ELSE "finally"

\* Lines 39-93: however the try block is left, the finally clause is next.
leave_main(how) == "finally"

\* Lines 40-59: start returns, the tools and the agent are set up.
MainStartOk ==
    /\ main_pc = "created"
    /\ main_pc' = "loop"
    /\ last_step' = "started"
    /\ UNCHANGED <<pc, stops, task_vars>>

\* Line 40 raises: the handler at lines 87-89 reports it.
MainStartRaises ==
    /\ main_pc = "created"
    /\ main_pc' = leave_main("start_failed")
    /\ last_step' = "start_failed"
    /\ UNCHANGED <<pc, stops, task_vars>>

\* Lines 62-74: a task is read and run_agent_loop is entered.
MainRunTask ==
    /\ main_pc = "loop"
    /\ StartTask

\* Lines 68-70: exit, quit or the like is typed.
MainExit ==
    /\ main_pc = "loop"
    /\ pc = "idle"
    /\ main_pc' = leave_main("exit")
    /\ last_step' = "exit_typed"
    /\ UNCHANGED <<pc, stops, task_vars>>

\* KeyboardInterrupt at input (line 62) or anywhere in a running task
\* (line 74, caught at 79-81): the while loop of main is left.
MainInterrupt ==
    /\ main_pc = "loop"
    /\ main_pc' = leave_main("interrupt")
    /\ pc' = IF pc = "idle" THEN "idle" ELSE "interrupted"
    /\ last_step' = "interrupt"
    /\ UNCHANGED <<stops, task_vars>>

\* Lines 293-298 raise out of run_agent_loop (a print that fails): the handler
\* at lines 82-85 reports it and main asks for the next task.
MainTaskRaises ==
    /\ main_pc = "loop"
    /\ pc = "post"
    /\ pc' = "idle"
    /\ last_step' = "task_raised"
    /\ UNCHANGED <<main_pc, stops, task_vars>>

\* Lines 90-93: the finally clause calls BrowserController.stop.
MainFinally ==
    /\ main_pc = "finally"
    /\ stops' = stops + 1
    /\ main_pc' = "exited"
    /\ last_step' = "stopped"
    /\ UNCHANGED <<pc, task_vars>>

MainNext ==
    \/ MainStartOk
    \/ MainStartRaises
    \/ MainRunTask
    \/ LoopStep
    \/ MainExit
    \/ MainInterrupt
    \/ MainTaskRaises
    \/ MainFinally

SpecMain == MainInit /\ [][MainNext]_vars

\* ------------------------------------------------------------ ToolManager
\* What the ToolManager's methods leave alone.
agent_vars == <<messages, current_iteration, pc, page, pending, exit, notice,
                user_prompt, obs_fails, n_decide, any_tool, calls, llm,
                failed_sent, only_tool_requests, prev_exit, max_size, before,
                main_pc, stops>>

\* Lines 75-77: an empty registry.
ToolsInit ==
    /\ tools = <<>>
    /\ catalog = <<>>
    /\ reg_call = NoCall
    /\ reg_error = FALSE
    /\ dispatched = NoCall
    /\ first_order = <<>>
    /\ last_reg = [n \in RegistryNames |-> ""]
    /\ last_step = "init"
    /\ messages = <<SystemMsg>>
    /\ current_iteration = 0
    /\ pc = "idle"
    /\ page = TRUE
    /\ pending = NoResponse
    /\ exit = "none"
    /\ notice = FALSE
    /\ user_prompt = 0
    /\ obs_fails = 0
    /\ n_decide = 0
    /\ any_tool = FALSE
    /\ calls = <<>>
    /\ llm = "none"
    /\ failed_sent = <<>>
    /\ only_tool_requests = TRUE
    /\ prev_exit = "none"
    /\ max_size = max_context_messages
    /\ before = <<>>
    /\ main_pc = "created"
    /\ stops = 0

\* Lines 79-89: register_tool(name, func) returns or raises.
RegisterTool ==
    /\ \E name \in RegistryNames, func \in Callables :
        /\ tools' = register_tool(tools, name, func).tools
        /\ reg_error' = register_tool(tools, name, func).raised
        /\ reg_call' = [name |-> name, func |-> func.id]
        /\ IF func.async
           THEN /\ last_reg' = [last_reg EXCEPT ![name] = func.id]
                /\ first_order' = IF last_reg[name] = "" THEN Append(first_order, name)
                                  ELSE first_order
           ELSE UNCHANGED <<first_order, last_reg>>
    /\ last_step' = "register_tool"
    /\ UNCHANGED <<catalog, dispatched, agent_vars>>

\* Lines 126-190: get_tool_definitions().
GetToolDefinitions ==
    /\ catalog' = get_tool_definitions(tools)
    /\ last_step' = "get_tool_definitions"
    /\ UNCHANGED <<tools, reg_call, reg_error, dispatched, first_order, last_reg,
                   agent_vars>>

\* Lines 106-124: call_tool(name, ...) looks the name up and awaits the
\* callable it finds, or returns the not-found string.
CallTool ==
    /\ \E name \in RegistryNames \cup {"nonexistent_tool"} :
        dispatched' = [name |-> name,
                       func |-> IF HasKey(tools, name)
                                THEN get_item(tools, name).id ELSE "not_found"]
    /\ last_step' = "call_tool"
    /\ UNCHANGED <<tools, catalog, reg_call, reg_error, first_order, last_reg,
                   agent_vars>>

ToolsNext == RegisterTool \/ GetToolDefinitions \/ CallTool

SpecTools == ToolsInit /\ [][ToolsNext]_vars

\* ================================================================ claims
Finished == pc \in {"post", "idle"} /\ user_prompt # 0
HasCallId(m, id) == \E j \in 1..Len(m.tool_calls) : m.tool_calls[j].id = id

\* C1: every tool-role message of the transcript is immediately preceded by an
\* assistant message whose tool_calls hold a call with the tool message's
\* tool_call_id.
C1_ToolResultFollowsItsCall ==
    \A i \in 1..Len(messages) :
        messages[i].role = "tool" =>
            /\ i > 1
            /\ messages[i - 1].role = "assistant"
            /\ HasCallId(messages[i - 1], messages[i].tool_call_id)

\* C2: at every decision call, every tool call carried by an assistant message
\* of the transcript has a tool-result message with its id later in the
\* transcript.
C2_NoHalfAppendedPair ==
    pc = "decide" =>
        \A i \in 1..Len(messages) :
            \A j \in 1..Len(messages[i].tool_calls) :
                \E k \in (i + 1)..Len(messages) :
                    /\ messages[k].role = "tool"
                    /\ messages[k].tool_call_id = messages[i].tool_calls[j].id

\* C3: the counter never passes max_iterations, and a task in which every
\* iteration got a response requesting a tool call ends on the ceiling with
\* the counter at max_iterations after max_iterations decision calls.
C3_StopsOnLimitAtFifty ==
    /\ current_iteration <= max_iterations
    /\ (Finished /\ only_tool_requests) =>
          /\ exit = "limit"
          /\ current_iteration = max_iterations
          /\ n_decide = max_iterations

C3_Witness ==
    /\ pc = "idle"
    /\ only_tool_requests
    /\ exit = "limit"
    /\ n_decide = max_iterations
    /\ last_step = "returned"

Running == pc # "idle"

\* C4: whatever the external calls return or raise, a started task returns,
\* the counter never passes max_iterations and no task makes more decision
\* calls than it has started iterations, so at most max_iterations of them.
C4_LoopTerminates ==
    /\ [](current_iteration <= max_iterations /\ n_decide <= current_iteration)
    /\ (Running ~> ~Running)

C4_Witness ==
    /\ pc = "idle"
    /\ exit = "limit"
    /\ llm = "rate"
    /\ n_decide = max_iterations - 1
    /\ obs_fails = 1

\* A step that takes a decision response with no tool call and some text.
FinalAnswerStep ==
    /\ pc = "decide"
    /\ llm' = "ok"
    /\ pending'.tool_calls = NoCalls
    /\ pending'.content # Empty

\* C5: a decision response with no tool call and non-empty text ends the loop
\* in DONE in that iteration: no tool is invoked, and once DONE no observation,
\* decision call or tool call is made and the counter stays.
C5_FinalAnswerEndsInDone ==
    [][ /\ FinalAnswerStep =>
            /\ exit' = "done"
            /\ pc' = "post"
            /\ current_iteration' = current_iteration
            /\ calls' = Append(calls, "decide")
            /\ any_tool' = any_tool
        /\ (exit = "done" /\ exit' = "done") =>
            UNCHANGED <<current_iteration, n_decide, calls, any_tool, messages>>
      ]_vars

C5_Witness ==
    /\ exit = "done"
    /\ pc = "idle"
    /\ pending.content # Empty
    /\ any_tool
    /\ current_iteration < max_iterations

\* C6: after an authentication or quota failure of the decision call the loop
\* is left at once as a fatal stop, with that call the last external call; when
\* it was the first decision call of the task no tool has been invoked.
C6_FatalLlmStopsAtOnce ==
    llm \in FatalLlm =>
        /\ pc \in {"post", "idle"}
        /\ exit = "fatal"
        /\ calls = <<"observe", "decide">>
        /\ (n_decide = 1 => ~any_tool)

C6_Witness ==
    /\ llm = "auth"
    /\ n_decide = 1
    /\ current_iteration = 1
    /\ pc = "idle"
    /\ exit = "fatal"

\* C7: when the loop is left on a fatal LLM failure, the transcript is the
\* message list that was passed to the failed decision call.
C7_FatalLeavesTranscript ==
    (exit = "fatal" /\ llm \in FatalLlm) => messages = failed_sent

C7_Witness ==
    /\ exit = "fatal"
    /\ llm = "quota"
    /\ pc = "idle"
    /\ n_decide > 1
    /\ Len(messages) = max_context_messages + 1

\* C8: when the first decision call fails with a non-quota rate limit and the
\* second returns a final answer, the loop ends in DONE after 2 decision calls
\* with the counter at 1.
C8_RetryKeepsCounterAtOne ==
    [][ ( /\ pc = "decide"
          /\ n_decide = 1
          /\ llm = "rate"
          /\ llm' = "ok"
          /\ pending'.tool_calls = NoCalls )
        => ( /\ exit' = "done"
             /\ n_decide' = 2
             /\ current_iteration' = 1 )
      ]_vars

\* C9: the decision call that follows a non-quota rate-limit failure is passed
\* the message list the failed call was passed.
C9_RetryPassesSameMessages ==
    (pc = "decide" /\ llm = "rate") => messages = failed_sent

\* A step taken when the arguments of the processed tool call do not parse.
MalformedStep ==
    /\ pc = "act"
    /\ tool_call.function.arguments = "malformed"

\* C10: when the arguments of the processed tool call do not parse, call_tool
\* is not called, one corrective user message and no tool message is appended,
\* and the loop goes on to its next iteration.
C10_MalformedArgumentsCorrected ==
    [][ MalformedStep =>
            /\ messages' = Append(messages, UserMsg("malformed_arguments"))
            /\ calls' = calls
            /\ any_tool' = any_tool
            /\ pc' = "head"
            /\ exit' = "none"
      ]_vars

C10_Witness ==
    /\ last_step = "malformed"
    /\ pc = "head"
    /\ messages[Len(messages)] = UserMsg("malformed_arguments")
    /\ messages[Len(messages) - 1].role = "user"

\* C11: a step on malformed arguments does not advance the iteration counter:
\* the counter at the decision call that follows equals the counter at the
\* decision call that produced the malformed arguments.
C11_MalformedKeepsCounter ==
    [][ (pc = "head" /\ last_step = "malformed" /\ pc' = "observe")
        => current_iteration' = current_iteration ]_vars

\* C12: while a task runs, for every max_size of at least 2 and after any
\* number of _trim_context calls, the first message of the transcript is the
\* system message and the second is the goal message of the task.
C12_EssentialsSurvive ==
    max_size >= 2 =>
        /\ Len(messages) >= 2
        /\ messages[1] = SystemMsg
        /\ messages[2] = GoalMsg(user_prompt)

C12_Witness ==
    /\ last_step = "trimmed"
    /\ max_size >= 2
    /\ current_iteration >= 3
    /\ Len(before) > max_size
    /\ before[3] # ObservationMsg(1)
    /\ messages[2] = GoalMsg(1)

\* C13: after _trim_context no tool message remains unless the assistant
\* message that carries the tool call it answers remains before it.
C13_TrimDropsOrphanedResults ==
    last_step = "trimmed" =>
        \A i \in 1..Len(messages) :
            messages[i].role = "tool" =>
                \E j \in 1..(i - 1) :
                    /\ messages[j].role = "assistant"
                    /\ HasCallId(messages[j], messages[i].tool_call_id)

\* C14: a transcript longer than max_size is trimmed, for max_size of at least
\* 2, to exactly max_size messages: the system message, the first user message
\* and the max_size - 2 newest of the others in their order; for a smaller
\* max_size only the two essentials are kept.
C14_TrimKeepsNewest ==
    (last_step = "trimmed" /\ Len(before) > max_size) =>
        IF max_size >= 2
        THEN /\ Len(messages) = max_size
             /\ before[1] = SystemMsg
             /\ before[2] = GoalMsg(user_prompt)
             /\ messages = <<before[1], before[2]>>
                    \o SubSeq(before, Len(before) - max_size + 3, Len(before))
        ELSE messages = <<SystemMsg, GoalMsg(user_prompt)>>

C14_Witness ==
    /\ last_step = "trimmed"
    /\ max_size = 4
    /\ Len(before) = 7
    /\ Len(messages) = 4
    /\ messages[3].role = "assistant"
    /\ messages[4].role = "tool"

\* C15: _trim_context leaves a transcript of at most max_size messages as it
\* is, the length max_size included, and trimming a trimmed transcript again
\* changes nothing.
C15_TrimNoOpAndIdempotent ==
    last_step = "trimmed" =>
        /\ (Len(before) <= max_size => messages = before)
        /\ trim_context(messages, max_size) = messages

C15_Witness ==
    /\ last_step = "trimmed"
    /\ max_size >= 3
    /\ Len(before) = max_size
    /\ messages = before

\* C16: the message list passed to every LLM decision call holds at most
\* max_context_messages messages.
C16_DecisionListWithinWindow ==
    pc = "decide" => Len(messages) <= max_context_messages

\* The argument strings that parse to a JSON object.
ArgMappings == {"mapping", "mapping_name", "mapping_extra"}

\* C17: the dispatch of a tool call never raises: for every tool name and every
\* argument mapping, one holding the key "name" or keys the callable does not
\* take included, the dispatch made by the loop yields a string, which becomes
\* the tool message; for a name that is not registered it is the not-found
\* string.
C17_DispatchNeverRaises ==
    [][ (pc = "act" /\ tool_call.function.arguments \in ArgMappings)
        => \E result \in {"tool_ok", "tool_failed", "tool_not_found"} :
              /\ messages' = Append(messages, ToolMsg(tool_call, result))
              /\ (tool_call.function.name \notin RegisteredTools
                    => result = "tool_not_found")
      ]_vars

\* What a step of a task changes.
loop_state == <<messages, current_iteration, pc, pending, exit, notice, calls,
                n_decide, user_prompt>>

\* C18: on every path through main after the BrowserController is created
\* (exit typed, start failing, a task raising, KeyboardInterrupt during a
\* task), BrowserController.stop is called exactly once, and after it no step
\* of a task is taken.
C18_StopCalledOnce ==
    /\ [](stops <= 1 /\ (main_pc = "exited" <=> stops = 1))
    /\ [][stops = 1 => UNCHANGED loop_state]_vars

C18_Witness ==
    /\ main_pc = "exited"
    /\ stops = 1
    /\ pc = "interrupted"
    /\ current_iteration = 2
    /\ any_tool

\* C19: in every reachable state, across tasks, iterations, error paths and
\* trims, the transcript holds exactly one system message, and it is the first
\* message.
C19_OneSystemMessageFirst ==
    /\ Len(messages) >= 1
    /\ messages[1] = SystemMsg
    /\ \A i \in 2..Len(messages) : messages[i].role # "system"

C19_Witness ==
    /\ user_prompt = 2
    /\ pc = "observe"
    /\ last_step = "trim"
    /\ current_iteration >= 3
    /\ Len(messages) = max_context_messages
    /\ messages[Len(messages)] = UserMsg("loop_error")
    /\ messages[1] = SystemMsg

\* C20: at the start of each task, however the task before ended, the
\* iteration counter is 0 and the transcript is the system message followed
\* only by the goal of the new task.
C20_TaskStartsFresh ==
    last_step = "start" =>
        /\ current_iteration = 0
        /\ messages = <<SystemMsg, GoalMsg(user_prompt)>>

C20_Witness ==
    /\ last_step = "start"
    /\ prev_exit = "limit"
    /\ user_prompt = 2
    /\ current_iteration = 0
    /\ Len(messages) = 2

\* C21: when the loop ends in DONE on a response with text, the last message
\* of the transcript is an assistant message whose content is that text.
C21_FinalTextIsLastMessage ==
    (exit = "done" /\ pending.content # Empty) =>
        /\ messages[Len(messages)].role = "assistant"
        /\ messages[Len(messages)].content = pending.content

C21_Witness ==
    /\ exit = "done"
    /\ pc = "idle"
    /\ any_tool
    /\ current_iteration = 3
    /\ pending.content = <<"text", 3>>
    /\ messages[Len(messages)].content = <<"text", 3>>

\* The parameter of a callable that a catalog property was made from.
ParamOf(func, pname) ==
    CHOOSE i \in 1..Len(func.params) : func.params[i].name = pname

Listed(seq, x) == \E i \in 1..Len(seq) : seq[i] = x

\* C22: in every catalog entry get_tool_definitions produces, a parameter is
\* listed in required if and only if it has no default value, and its schema
\* carries a default field if and only if it has one.
C22_RequiredIffNoDefault ==
    last_step = "get_tool_definitions" =>
        /\ Len(catalog) = Len(tools)
        /\ \A i \in 1..Len(catalog) :
            LET func == tools[i].func
                parameters == catalog[i].function.parameters
            IN  /\ \A j \in 1..Len(parameters.properties) :
                    LET prop == parameters.properties[j]
                        q == func.params[ParamOf(func, prop.name)]
                    IN  /\ Listed(parameters.required, prop.name)
                                <=> q.default = ParameterEmpty
                        /\ "default" \in DOMAIN prop.schema
                                <=> q.default # ParameterEmpty
                /\ \A k \in 1..Len(parameters.required) :
                    \E j \in 1..Len(parameters.properties) :
                        parameters.properties[j].name = parameters.required[k]

C22_Witness ==
    /\ last_step = "get_tool_definitions"
    /\ Len(catalog) = 2
    /\ tools[1].func = MoveTo
    /\ tools[2].func = ScrollPage
    /\ catalog[1].function.parameters.required = <<"direction">>
    /\ catalog[2].function.parameters.required = <<>>
    /\ "default" \in DOMAIN catalog[2].function.parameters.properties[1].schema

\* The callable the last register_tool call was given.
RegFunc == CHOOSE c \in Callables : c.id = reg_call'.func

\* C23: register_tool with a callable that is not an async function raises and
\* leaves the registry as it was, the name not added and a callable registered
\* under it before not replaced; with an async callable it stores the callable
\* under the name.
C23_RegisterOnlyAsync ==
    [][ last_step' = "register_tool" =>
            IF RegFunc.async
            THEN /\ ~reg_error'
                 /\ \E i \in 1..Len(tools') :
                        tools'[i] = [name |-> reg_call'.name, func |-> RegFunc]
                 /\ \A i \in 1..Len(tools) :
                        tools[i].name # reg_call'.name => tools'[i] = tools[i]
            ELSE /\ reg_error'
                 /\ tools' = tools
      ]_vars

C23_Witness ==
    /\ last_step = "register_tool"
    /\ reg_error
    /\ reg_call = [name |-> "scroll_page", func |-> "blocking_tool"]
    /\ tools = <<[name |-> "scroll_page", func |-> ScrollPage]>>

\* C24: the iteration-limit notice is emitted exactly when the loop stopped
\* because the iteration ceiling was reached: a run that ends in DONE or in a
\* fatal stop never emits it, also when it ends during iteration
\* max_iterations.
C24_NoticeOnlyOnLimit ==
    (pc = "idle" /\ user_prompt # 0) => (notice <=> exit = "limit")

\* An iteration that starts while the browser controller has no page.
NoPageStep ==
    /\ pc = "head"
    /\ loop_condition
    /\ ~page

\* C25: if the browser controller has no page at the observe step, the loop
\* stops as a fatal error in that iteration: no observation is appended, no
\* decision call and no tool call is made, and no later iteration runs.
C25_NoPageIsFatal ==
    /\ [][ NoPageStep =>
            /\ pc' = "post"
            /\ exit' = "fatal"
            /\ \A i \in 1..Len(messages') : messages'[i].content[1] # "observation"
            /\ calls' = <<>>
            /\ n_decide' = n_decide
            /\ any_tool' = any_tool
         ]_vars
    /\ [][ (~page /\ exit = "fatal" /\ exit' = "fatal") =>
            UNCHANGED <<messages, current_iteration, calls, n_decide, any_tool>>
         ]_vars

C25_Witness ==
    /\ ~page
    /\ exit = "fatal"
    /\ pc = "idle"
    /\ last_step = "returned"
    /\ current_iteration = 1
    /\ messages = <<SystemMsg, GoalMsg(user_prompt)>>
    /\ n_decide = 0

\* The external calls of one iteration, in their order.
IterationOrder == <<"observe", "decide", "call_tool", "settle">>

\* C26: per decision response at most one tool is invoked, also when the
\* response requests several tool calls, and the external calls of an
\* iteration happen one after another in the order observe, decide, act.
C26_OneToolPerResponse ==
    /\ Len(calls) <= Len(IterationOrder)
    /\ \A i \in 1..Len(calls) : calls[i] = IterationOrder[i]

C26_Witness ==
    /\ Len(pending.tool_calls) = 2
    /\ calls = IterationOrder
    /\ pc = "head"
    /\ messages[Len(messages)].role = "tool"
    /\ messages[Len(messages)].tool_call_id = pending.tool_calls[1].id

\* The last message is the result of the processed tool call.
ResultIsLast ==
    /\ messages[Len(messages)].role = "tool"
    /\ messages[Len(messages)].tool_call_id = tool_call.id

\* C27: within every iteration messages are appended in causal order: the
\* list passed to a decision call ends with the observation of that
\* iteration, the assistant message (if there is one) is appended before the
\* tool result, and the result of a processed tool call is appended before
\* anything else happens, so before the next decision call.
C27_CausalAppendOrder ==
    /\ [](pc = "decide" =>
            messages[Len(messages)] = ObservationMsg(current_iteration))
    /\ [](pc = "settle" => ResultIsLast)
    /\ [][ (pc = "act" /\ calls' # calls) =>
            /\ \E result \in {"tool_ok", "tool_failed", "tool_not_found"} :
                    messages' = Append(messages, ToolMsg(tool_call, result))
            /\ pending.content # Empty =>
                    messages[Len(messages)] = AssistantMsg(pending)
            /\ n_decide' = n_decide
         ]_vars

C27_Witness ==
    /\ pc = "decide"
    /\ current_iteration = 2
    /\ n_decide = 1
    /\ Len(messages) = 5
    /\ messages[3].role = "assistant"
    /\ messages[4].role = "tool"
    /\ messages[4].tool_call_id = messages[3].tool_calls[1].id
    /\ messages[5] = ObservationMsg(2)

\* A decision call returns a response that requests a tool.
ToolRequestedStep ==
    /\ pc = "decide"
    /\ n_decide' = n_decide + 1
    /\ llm' = "ok"
    /\ pending'.tool_calls # NoCalls

\* C28: the loop reaches DONE only through a response that carries no
\* tool-call request; a response that carries a tool-call request, with or
\* without text, does not end the task, and it is its first tool call that is
\* processed.
C28_DoneOnlyWithoutToolCalls ==
    /\ [](exit = "done" => (llm = "ok" /\ pending.tool_calls = NoCalls))
    /\ [][ ToolRequestedStep => (pc' = "act" /\ exit' = "none") ]_vars
    /\ [][ (pc = "act" /\ calls' # calls) =>
            /\ messages'[Len(messages')].role = "tool"
            /\ messages'[Len(messages')].tool_call_id = pending.tool_calls[1].id
         ]_vars

C28_Witness ==
    /\ pc = "settle"
    /\ exit = "none"
    /\ pending.content # Empty
    /\ Len(pending.tool_calls) = 2
    /\ messages[Len(messages)].tool_call_id = pending.tool_calls[1].id
    /\ messages[Len(messages) - 1] = AssistantMsg(pending)

\* A step in which an external call fails with a recoverable error: the
\* decision call with an API error or an unclassified exception, or the
\* observation, the dispatch or the wait after the tool with any exception.
RecoverableFailureStep ==
    \/ /\ pc = "decide"
       /\ n_decide' = n_decide + 1
       /\ llm' \in {"api", "other"}
    \/ /\ pc \in {"observe", "act", "settle"}
       /\ last_step' \in {"observe_error", "dispatch_error", "settle_error"}

\* C29: a non-fatal failure in the loop body (an API error of the LLM client,
\* or an unclassified exception in observation, decision or action) does not
\* end the task: exactly one user message describing it is appended and the
\* loop goes to its next iteration, which runs if the ceiling is not reached.
C29_RecoverableFailureContinues ==
    [][ RecoverableFailureStep =>
            /\ \E kind \in {"api_error", "unexpected_error", "loop_error"} :
                    messages' = Append(messages, UserMsg(kind))
            /\ pc' = "head"
            /\ exit' = "none"
            /\ current_iteration' = current_iteration
      ]_vars

C29_Witness ==
    /\ last_step = "settle_error"
    /\ pc = "head"
    /\ exit = "none"
    /\ current_iteration = 2
    /\ messages[Len(messages)] = UserMsg("loop_error")
    /\ messages[Len(messages) - 1].role = "tool"

\* C30: arguments that are valid JSON but no key-to-value mapping (a list, a
\* number) are handled as malformed arguments: the tool is not invoked and the
\* corrective message of the unparseable case is appended.
C30_NonMappingIsMalformed ==
    [][ (pc = "act" /\ tool_call.function.arguments = "nonmapping") =>
            /\ messages' = Append(messages, UserMsg("malformed_arguments"))
            /\ calls' = calls
            /\ any_tool' = any_tool
      ]_vars

\* The names of the entries of a catalog, in their order.
CatalogNames(c) == [i \in 1..Len(c) |-> c[i].function.name]

\* C31: after any sequence of register_tool calls, the catalog has exactly one
\* entry per distinct registered name, in the order in which the names were
\* first registered, and dispatch by a name reaches the callable of the last
\* successful registration under that name.
C31_LastRegistrationWins ==
    /\ last_step = "get_tool_definitions" => CatalogNames(catalog) = first_order
    /\ last_step = "call_tool" =>
            dispatched.func =
                IF dispatched.name \in RegistryNames /\ last_reg[dispatched.name] # ""
                THEN last_reg[dispatched.name] ELSE "not_found"

C31_Witness ==
    /\ last_step = "call_tool"
    /\ dispatched = [name |-> "scroll_page", func |-> "move_to"]
    /\ reg_call = [name |-> "scroll_page", func |-> "blocking_tool"]
    /\ first_order = <<"scroll_page", "click_element">>
    /\ Len(catalog) = 2
    /\ catalog[1].function.description = <<"doc", "scrolls">>

\* The enum of the scroll directions.
DirectionEnum == <<"down", "up", "top", "bottom">>

\* C32: in the catalog every parameter named direction, of any registered
\* tool, carries the enum down, up, top, bottom, and no parameter with another
\* name carries an enum.
C32_EveryDirectionHasEnum ==
    last_step = "get_tool_definitions" =>
        \A i \in 1..Len(catalog) :
            \A j \in 1..Len(catalog[i].function.parameters.properties) :
                LET prop == catalog[i].function.parameters.properties[j]
                IN  IF prop.name = "direction"
                    THEN /\ "enum" \in DOMAIN prop.schema
                         /\ prop.schema["enum"] = DirectionEnum
                    ELSE "enum" \notin DOMAIN prop.schema

\* C32, amended: the parameter named direction of the tool registered under
\* the name scroll_page carries the enum down, up, top, bottom, and no other
\* parameter of any tool carries an enum.
C32_ScrollPageDirectionHasEnum ==
    last_step = "get_tool_definitions" =>
        \A i \in 1..Len(catalog) :
            \A j \in 1..Len(catalog[i].function.parameters.properties) :
                LET prop == catalog[i].function.parameters.properties[j]
                IN  IF prop.name = "direction"
                       /\ catalog[i].function.name = "scroll_page"
                    THEN /\ "enum" \in DOMAIN prop.schema
                         /\ prop.schema["enum"] = DirectionEnum
                    ELSE "enum" \notin DOMAIN prop.schema

C32_Witness ==
    /\ last_step = "get_tool_definitions"
    /\ Len(catalog) = 2
    /\ tools[1] = [name |-> "scroll_page", func |-> ScrollPage]
    /\ tools[2] = [name |-> "click_element", func |-> MoveTo]
    /\ catalog[1].function.parameters.properties[1].name = "direction"
    /\ "enum" \in DOMAIN catalog[1].function.parameters.properties[1].schema
    /\ catalog[2].function.parameters.properties[1].name = "direction"
    /\ "enum" \notin DOMAIN catalog[2].function.parameters.properties[1].schema

============================================================================
